---- MODULE Spec2Model ----
(***************************************************************************)
(* The EarthWatch backend (server.js as embedded in deploy-render.sh) and  *)
(* the polygon drawing of the map UI (MapComponent.jsx).                   *)
(*                                                                         *)
(* Part 1: POST /api/ndvi-timeseries once featureCollection.getInfo() has  *)
(* settled.  It formats the features into a date-sorted time series,       *)
(* answers 404 on an empty series and otherwise computes the summary.      *)
(* Part 2: the server as a whole: initializeGEE with its retries, the      *)
(* health endpoint and the two POST handlers from arrival to response.     *)
(* Part 3: DrawingHandler: clicks and double-clicks on the map.            *)
(* Part 4: the map page of App: the professional map                       *)
(* (SimpleMapComponent), the advanced map and the toggle between them.     *)
(*                                                                         *)
(* JavaScript numbers are modelled as exact rationals plus NaN; null and   *)
(* undefined (a property missing from the feature) are values of their own.*)
(***************************************************************************)
EXTENDS Integers, Sequences, FiniteSets, TLC

VARIABLES
    pc,              \* "awaiting": getInfo() pending; "done": response sent
    features,        \* results.features as delivered by getInfo()
    status,          \* HTTP status of the response (0: none yet)
    timeseries,      \* const timeseries (also the body's ndvi_timeseries)
    ndviValues,      \* const ndviValues
    firstHalf,       \* const firstHalf
    secondHalf,      \* const secondHalf
    firstHalfMean,   \* const firstHalfMean
    secondHalfMean,  \* const secondHalfMean
    summary,         \* body.summary of a 200 response
    error,           \* body.error of a 404 / 500 response
    round,           \* history: number of the request being served
    prevFeatures,    \* history: features of the previous request
    prevStatus,      \* history: status of the previous response
    prevSummary,     \* history: summary of the previous response
    startDate,       \* req.body.startDate
    endDate,         \* req.body.endDate
    geeAuthenticated,  \* let geeAuthenticated
    geeInitialized,    \* let geeInitialized
    initPc,          \* where initializeGEE stands
    retryCount,      \* the retryCount of the running initializeGEE call
    reqs,            \* the POST requests of the server, by request
    health,          \* the body of the last GET /api/health response
    isDrawing,       \* DrawingHandler: useState isDrawing
    currentPath,     \* DrawingHandler: useState currentPath
    aoi,             \* App: useState aoi (set through onAreaSelect)
    clicks,          \* history: points clicked since the drawing was idle
    calls,           \* history: onAreaSelect calls since the drawing was idle
    lastArea,        \* history: the last argument of onAreaSelect
    lastEvent,       \* history: the last map event handled
    useAdvancedMap,  \* App: useState useAdvancedMap
    selectedBounds,  \* SimpleMapComponent: useState selectedBounds
    selectionMode,   \* SimpleMapComponent: useState selectionMode
    isSelecting,     \* AreaSelector: useState isSelecting
    startPoint,      \* AreaSelector: useState startPoint
    coordinateForm,  \* SimpleMapComponent: useState coordinateForm
    showCoordinateInput,  \* SimpleMapComponent: useState showCoordinateInput
    renderError      \* a render of the page has thrown

evalVars == <<pc, features, status, timeseries, ndviValues, firstHalf, secondHalf,
              firstHalfMean, secondHalfMean, summary, error, round,
              prevFeatures, prevStatus, prevSummary, startDate, endDate>>

serverVars == <<geeAuthenticated, geeInitialized, initPc, retryCount, reqs, health>>

simpleVars == <<useAdvancedMap, selectedBounds, selectionMode, isSelecting,
                startPoint, coordinateForm, showCoordinateInput, renderError>>

drawVars == <<isDrawing, currentPath, aoi, clicks, calls, lastArea, lastEvent,
              simpleVars>>

vars == <<evalVars, serverVars, drawVars>>

(***************************************************************************)
(* Bounds of the model.                                                    *)
(***************************************************************************)
MaxLen == 3        \* features per getInfo() result
MaxRequests == 2   \* requests in a resubmission run

(***************************************************************************)
(* JavaScript values.                                                      *)
(***************************************************************************)
Abs(i) == IF i < 0 THEN -i ELSE i

RECURSIVE GCD(_, _)
GCD(a, b) == IF b = 0 THEN a ELSE GCD(b, a % b)

\* the number n/d (d > 0), in lowest terms
Num(n, d) ==
    LET g == GCD(Abs(n), d)
    IN  [k |-> "num", n |-> n \div g, d |-> d \div g]

NaN == [k |-> "nan", n |-> 0, d |-> 1]
Null == [k |-> "null", n |-> 0, d |-> 1]
Undefined == [k |-> "undefined", n |-> 0, d |-> 1]

IsNum(x) == x.k = "num"

\* ToNumber: null -> +0, undefined -> NaN
ToNumber(x) ==
    CASE x.k = "num" -> x
      [] x.k = "null" -> Num(0, 1)
      [] OTHER -> NaN

\* a + b on numbers
JSAdd(a, b) ==
    LET x == ToNumber(a)
        y == ToNumber(b)
    IN  IF IsNum(x) /\ IsNum(y)
        THEN Num(x.n * y.d + y.n * x.d, x.d * y.d)
        ELSE NaN

\* a - b
JSSub(a, b) ==
    LET x == ToNumber(a)
        y == ToNumber(b)
    IN  IF IsNum(x) /\ IsNum(y)
        THEN Num(x.n * y.d - y.n * x.d, x.d * y.d)
        ELSE NaN

\* a * b
JSMul(a, b) ==
    IF IsNum(a) /\ IsNum(b) THEN Num(a.n * b.n, a.d * b.d) ELSE NaN

\* a / len for an array length len > 0
JSDivLen(a, len) ==
    IF IsNum(a) THEN Num(a.n, a.d * len) ELSE NaN

\* Math.abs(a)
MathAbs(a) == IF IsNum(a) THEN Num(Abs(a.n), a.d) ELSE NaN

\* a > b: false as soon as one side is NaN
JSGreater(a, b) ==
    IsNum(a) /\ IsNum(b) /\ a.n * b.d > b.n * a.d

\* Math.min(a, b): NaN as soon as one side is NaN
MathMin(a, b) ==
    IF IsNum(a) /\ IsNum(b)
    THEN IF a.n * b.d <= b.n * a.d THEN a ELSE b
    ELSE NaN

\* Math.floor(len / 2) for an array length
MathFloorHalf(len) == len \div 2

\* arr.slice(from) / arr.slice(0, to) with 0-based indices
Slice(arr, from, to) == SubSeq(arr, from + 1, to)

\* arr.reduce((a, b) => a + b, 0)
RECURSIVE ReduceSum(_)
ReduceSum(arr) ==
    IF arr = <<>> THEN Num(0, 1)
    ELSE JSAdd(ReduceSum(SubSeq(arr, 1, Len(arr) - 1)), arr[Len(arr)])

(***************************************************************************)
(* Dates and Array.prototype.sort.                                         *)
(***************************************************************************)
\* feature.properties.date: two days that parse ("2024-01-01", "2024-01-02",
\* as day numbers) and a string that Date cannot parse
BadDate == 0
ParseableDates == {1, 2}
Dates == ParseableDates \cup {BadDate}

\* new Date(s) as a time value: milliseconds for a parseable day, else NaN
NewDate(s) == IF s \in ParseableDates THEN Num(s * 86400000, 1) ELSE NaN

\* the comparefn (a, b) => new Date(a.date) - new Date(b.date)
CompareFn(a, b) == JSSub(NewDate(a.date), NewDate(b.date))

\* SortCompare: the sign of comparefn's result, NaN counting as +0
SortCompare(a, b) ==
    LET v == CompareFn(a, b)
    IN  IF ~IsNum(v) THEN 0
        ELSE IF v.n < 0 THEN -1
        ELSE IF v.n > 0 THEN 1
        ELSE 0

\* comparefn is a consistent comparator for the elements of arr
ConsistentComparator(arr) ==
    LET c == [i \in 1 .. Len(arr), j \in 1 .. Len(arr) |->
                 SortCompare(arr[i], arr[j])]
    IN  \A i, j, l \in 1 .. Len(arr) :
            /\ (c[i, j] = 0 /\ c[j, l] = 0) => c[i, l] = 0
            /\ (c[i, j] < 0 /\ c[j, l] = 0) => c[i, l] < 0
            /\ (c[i, j] = 0 /\ c[j, l] < 0) => c[i, l] < 0

\* x inserted into the sorted array arr behind every element not above it
RECURSIVE InsertSorted(_, _)
InsertSorted(arr, x) ==
    IF arr = <<>> THEN <<x>>
    ELSE IF SortCompare(arr[Len(arr)], x) <= 0 THEN Append(arr, x)
    ELSE Append(InsertSorted(SubSeq(arr, 1, Len(arr) - 1), x), arr[Len(arr)])

\* the stable sort of arr
RECURSIVE StableSort(_)
StableSort(arr) ==
    IF arr = <<>> THEN <<>>
    ELSE InsertSorted(StableSort(SubSeq(arr, 1, Len(arr) - 1)), arr[Len(arr)])

\* every reordering of arr
Reorderings(arr) ==
    { [i \in 1 .. Len(arr) |-> arr[p[i]]] : p \in Permutations(1 .. Len(arr)) }

\* arr.sort(comparefn): stable for a consistent comparator; with an
\* inconsistent one the order is implementation-defined
SortOutcomes(arr) ==
    IF ConsistentComparator(arr) THEN {StableSort(arr)} ELSE Reorderings(arr)

(***************************************************************************)
(* The handler's computations, statement by statement.                     *)
(***************************************************************************)
NdviNumbers == {Num(0, 1), Num(1, 10), Num(3, 5)}
NdviProps == NdviNumbers \cup {Null, Undefined}

Feature == [date : Dates, ndvi_mean : NdviProps]
FeatureLists == UNION { [1 .. n -> Feature] : n \in 0 .. MaxLen }

\* a field that the request body does not carry
MissingField == -1

NoSummary ==
    [mean |-> NaN, change_detected |-> FALSE, confidence |-> NaN,
     total_observations |-> -1,
     date_range |-> [start |-> MissingField, end |-> MissingField]]

\* results.features.map(feature => ({date, ndvi_mean}))
MapFeatures(f) ==
    [i \in 1 .. Len(f) |-> [date |-> f[i].date, ndvi_mean |-> f[i].ndvi_mean]]

\* .filter(item => item.ndvi_mean !== null)
KeepItem_KeepAll(item) == TRUE
KeepItem(item) == item.ndvi_mean # Null
FilterItems(items) == SelectSeq(items, KeepItem)

\* timeseries.map(item => item.ndvi_mean).filter(val => val !== null)
KeepValue_NumbersOnly(val) == IsNum(val)
KeepValue(val) == val # Null
NdviValuesOf_Accumulating(ts) ==
    ndviValues \o SelectSeq([i \in 1 .. Len(ts) |-> ts[i].ndvi_mean], KeepValue)
NdviValuesOf(ts) == SelectSeq([i \in 1 .. Len(ts) |-> ts[i].ndvi_mean], KeepValue)

\* arr.length > 0 ? arr.reduce((a, b) => a + b, 0) / arr.length : 0
MeanOrZero(arr) ==
    IF Len(arr) > 0 THEN JSDivLen(ReduceSum(arr), Len(arr)) ELSE Num(0, 1)

MidPoint_Ceil(vals) == (Len(vals) + 1) \div 2
MidPoint(vals) == MathFloorHalf(Len(vals))
FirstHalfOf(vals) == Slice(vals, 0, MidPoint(vals))
SecondHalfOf(vals) == Slice(vals, MidPoint(vals), Len(vals))

Threshold == Num(1, 10)
ChangeDetected_Inclusive(fm, sm) ==
    ~JSGreater(Threshold, MathAbs(JSSub(fm, sm))) /\ IsNum(JSSub(fm, sm))
ChangeDetected(fm, sm) == JSGreater(MathAbs(JSSub(fm, sm)), Threshold)
Confidence(fm, sm) == MathMin(JSMul(MathAbs(JSSub(fm, sm)), Num(2, 1)), Num(1, 1))

\* date_range: { start: startDate, end: endDate }
DateRange_OfSeries(ts, start, end) ==
    IF ts = <<>> THEN [start |-> start, end |-> end]
    ELSE [start |-> ts[1].date, end |-> ts[Len(ts)].date]
DateRange(ts, start, end) == [start |-> start, end |-> end]

\* the summary object of the 200 response
SummaryOf(ts, vals, fm, sm, start, end) ==
    [mean |-> MeanOrZero(vals),
     change_detected |-> ChangeDetected(fm, sm),
     confidence |-> Confidence(fm, sm),
     total_observations |-> Len(ts),
     date_range |-> DateRange(ts, start, end)]

(***************************************************************************)
(* The state machine of one request.                                       *)
(***************************************************************************)
\* the server and the map as they stand while one evaluation is followed
ServerAtRest ==
    /\ geeAuthenticated = TRUE
    /\ geeInitialized = TRUE
    /\ initPc = "ready"
    /\ retryCount = 0
    /\ reqs = <<>>
    /\ health = [status |-> "", gee_authenticated |-> FALSE,
                 gee_initialized |-> FALSE, askedIn |-> ""]

\* aoi === null
NoArea == [type |-> "null", coordinates |-> <<>>]

\* selectedBounds === null, startPoint === null
NoBounds == <<>>
NoPoint == <<>>

EmptyForm == [north |-> "", south |-> "", east |-> "", west |-> ""]

\* the state of a SimpleMapComponent and its AreaSelector when mounted
SimpleMapAtRest ==
    /\ selectedBounds = NoBounds
    /\ selectionMode = "drag"
    /\ isSelecting = FALSE
    /\ startPoint = NoPoint
    /\ coordinateForm = EmptyForm
    /\ showCoordinateInput = FALSE

MapAtRest ==
    /\ isDrawing = FALSE
    /\ currentPath = <<>>
    /\ aoi = NoArea
    /\ clicks = <<>>
    /\ calls = 0
    /\ lastArea = NoArea
    /\ lastEvent = ""
    /\ SimpleMapAtRest
    /\ renderError = FALSE

\* the request is in flight: getInfo() is pending and will deliver features
Init ==
    /\ pc = "awaiting"
    /\ features \in FeatureLists
    /\ status = 0
    /\ timeseries = <<>>
    /\ ndviValues = <<>>
    /\ firstHalf = <<>>
    /\ secondHalf = <<>>
    /\ firstHalfMean = Num(0, 1)
    /\ secondHalfMean = Num(0, 1)
    /\ summary = NoSummary
    /\ error = ""
    /\ round = 1
    /\ prevFeatures = <<>>
    /\ prevStatus = 0
    /\ prevSummary = NoSummary
    /\ startDate = 1
    /\ endDate = 3
    /\ ServerAtRest
    /\ MapAtRest
    /\ useAdvancedMap = FALSE

\* getInfo() resolves with results.features = features; the handler runs to
\* its response without another await
GetInfoResolve ==
    /\ pc = "awaiting"
    /\ \E ts \in SortOutcomes(FilterItems(MapFeatures(features))) :
         /\ timeseries' = ts
         /\ IF Len(ts) = 0
            THEN /\ status' = 404
                 /\ error' = "No satellite data found for the selected area and date range."
                 /\ summary' = NoSummary
                 /\ UNCHANGED <<ndviValues, firstHalf, secondHalf,
                                firstHalfMean, secondHalfMean>>
            ELSE /\ ndviValues' = NdviValuesOf(ts)
                 /\ firstHalf' = FirstHalfOf(ndviValues')
                 /\ secondHalf' = SecondHalfOf(ndviValues')
                 /\ firstHalfMean' = MeanOrZero(firstHalf')
                 /\ secondHalfMean' = MeanOrZero(secondHalf')
                 /\ summary' = SummaryOf(ts, ndviValues', firstHalfMean', secondHalfMean',
                                         startDate, endDate)
                 /\ status' = 200
                 /\ error' = ""
    /\ pc' = "done"
    /\ UNCHANGED <<features, round, prevFeatures, prevStatus, prevSummary,
                   startDate, endDate, serverVars, drawVars>>

\* getInfo() rejects: the catch block answers 500
GetInfoReject ==
    /\ pc = "awaiting"
    /\ pc' = "done"
    /\ status' = 500
    /\ error' = "Failed to process satellite time series data"
    /\ summary' = NoSummary
    /\ UNCHANGED <<features, timeseries, ndviValues, firstHalf, secondHalf,
                   firstHalfMean, secondHalfMean, round,
                   prevFeatures, prevStatus, prevSummary,
                   startDate, endDate, serverVars, drawVars>>

Next == GetInfoResolve \/ GetInfoReject

Spec == Init /\ [][Next]_vars

(***************************************************************************)
(* Resubmission runs: the client repeats its request and Earth Engine      *)
(* delivers the same features again, in any order.  The previous response  *)
(* is kept as history.                                                     *)
(***************************************************************************)
Resubmit ==
    /\ pc = "done"
    /\ status # 500
    /\ round < MaxRequests
    /\ round' = round + 1
    /\ prevFeatures' = features
    /\ prevStatus' = status
    /\ prevSummary' = summary
    /\ pc' = "awaiting"
    /\ features' \in Reorderings(features)
    /\ status' = 0
    /\ timeseries' = <<>>
    /\ ndviValues' = <<>>
    /\ firstHalf' = <<>>
    /\ secondHalf' = <<>>
    /\ firstHalfMean' = Num(0, 1)
    /\ secondHalfMean' = Num(0, 1)
    /\ summary' = NoSummary
    /\ error' = ""
    /\ UNCHANGED <<startDate, endDate, serverVars, drawVars>>

NextPerm == GetInfoResolve \/ GetInfoReject \/ Resubmit

SpecPerm == Init /\ [][NextPerm]_vars

(***************************************************************************)
(* Repeated requests: the client sends the same request again and Earth    *)
(* Engine delivers the same features in the same order.  The features are  *)
(* those filterDate(startDate, endDate) lets through: their dates parse    *)
(* and lie in [startDate, endDate).  The first answered evaluation is kept *)
(* as history.                                                             *)
(***************************************************************************)
Periods == {[start |-> 1, end |-> 3], [start |-> 2, end |-> 3],
            [start |-> 1, end |-> 2]}

InitRepeat ==
    /\ pc = "awaiting"
    /\ \E period \in Periods :
         /\ startDate = period.start
         /\ endDate = period.end
    /\ features \in FeatureLists
    /\ \A i \in 1 .. Len(features) :
         /\ features[i].date \in ParseableDates
         /\ startDate <= features[i].date
         /\ features[i].date < endDate
    /\ status = 0
    /\ timeseries = <<>>
    /\ ndviValues = <<>>
    /\ firstHalf = <<>>
    /\ secondHalf = <<>>
    /\ firstHalfMean = Num(0, 1)
    /\ secondHalfMean = Num(0, 1)
    /\ summary = NoSummary
    /\ error = ""
    /\ round = 1
    /\ prevFeatures = <<>>
    /\ prevStatus = 0
    /\ prevSummary = NoSummary
    /\ ServerAtRest
    /\ MapAtRest
    /\ useAdvancedMap = FALSE

Repeat ==
    /\ pc = "done"
    /\ round < MaxRequests
    /\ round' = round + 1
    /\ IF prevStatus = 0 /\ status # 500
       THEN /\ prevFeatures' = features
            /\ prevStatus' = status
            /\ prevSummary' = summary
       ELSE UNCHANGED <<prevFeatures, prevStatus, prevSummary>>
    /\ pc' = "awaiting"
    /\ status' = 0
    /\ summary' = NoSummary
    /\ error' = ""
    /\ UNCHANGED <<features, timeseries, ndviValues, firstHalf, secondHalf,
                   firstHalfMean, secondHalfMean, startDate, endDate,
                   serverVars, drawVars>>

NextRepeat == GetInfoResolve \/ GetInfoReject \/ Repeat

SpecRepeat == InitRepeat /\ [][NextRepeat]_vars

(***************************************************************************)
(* The server: initializeGEE, GET /api/health, POST /api/ndvi and          *)
(* POST /api/ndvi-timeseries.  A handler runs without interruption from    *)
(* one await to the next; the Earth Engine client decides from outside     *)
(* which callback fires and what getInfo() delivers.                       *)
(***************************************************************************)
maxRetries == 3
MaxServerLen == 2      \* features per getInfo() result of a server request

Requests == {1, 2}
Endpoints == {"ndvi", "timeseries"}

\* req.body: aoi, startDate and endDate, each possibly missing
Bodies ==
    [aoi : {"polygon", "missing"}, startDate : {1, 2, MissingField},
     endDate : {3, MissingField}]
CompleteBodies ==
    { b \in Bodies : b.aoi # "missing" /\ b.startDate # MissingField
                       /\ b.endDate # MissingField }
NoBody == [aoi |-> "missing", startDate |-> MissingField, endDate |-> MissingField]

ServerFeatures ==
    {[date |-> 1, ndvi_mean |-> Num(0, 1)], [date |-> 2, ndvi_mean |-> Num(3, 5)],
     [date |-> 2, ndvi_mean |-> Null]}
ServerFeatureLists == UNION { [1 .. n -> ServerFeatures] : n \in 0 .. MaxServerLen }

NoGeeStatus == [authenticated |-> FALSE, initialized |-> FALSE]

\* a request slot before its request has arrived.  seenAuthenticated,
\* seenInitialized, order and overlapped are history: the flags when the
\* handler started, the arrival position, and whether another request was
\* awaiting getInfo() at some time while this one was.
NoRequest ==
    [pc |-> "none", endpoint |-> "", body |-> NoBody, status |-> 0,
     gee_status |-> NoGeeStatus, eeCalls |-> {}, features |-> <<>>,
     ndvi_timeseries |-> <<>>, summary |-> NoSummary, ndvi_mean |-> Undefined,
     error |-> "", seenAuthenticated |-> FALSE, seenInitialized |-> FALSE,
     order |-> 0, overlapped |-> FALSE]

NoHealth ==
    [status |-> "", gee_authenticated |-> FALSE, gee_initialized |-> FALSE,
     askedIn |-> ""]

\* the module has been loaded: initializeGEE() has called
\* ee.data.authenticateViaPrivateKey and app.listen has been called
InitServer ==
    /\ geeAuthenticated = FALSE
    /\ geeInitialized = FALSE
    /\ initPc = "authenticating"
    /\ retryCount = 0
    /\ reqs = [r \in Requests |-> NoRequest]
    /\ health = NoHealth

\* the evaluation variables of part 1 are not used by the server model
EvalAtRest ==
    /\ pc = "done"
    /\ features = <<>>
    /\ status = 0
    /\ timeseries = <<>>
    /\ ndviValues = <<>>
    /\ firstHalf = <<>>
    /\ secondHalf = <<>>
    /\ firstHalfMean = Num(0, 1)
    /\ secondHalfMean = Num(0, 1)
    /\ summary = NoSummary
    /\ error = ""
    /\ round = 1
    /\ prevFeatures = <<>>
    /\ prevStatus = 0
    /\ prevSummary = NoSummary
    /\ startDate = MissingField
    /\ endDate = MissingField

\* the catch block of initializeGEE
CatchSetupFailure_Inclusive ==
    /\ initPc' = IF retryCount <= maxRetries THEN "waitRetry" ELSE "failed"
    /\ UNCHANGED retryCount
CatchSetupFailure ==
    /\ initPc' = IF retryCount < maxRetries THEN "waitRetry" ELSE "failed"
    /\ UNCHANGED retryCount

\* authenticateViaPrivateKey calls its success callback; the awaited promise
\* resolves and initializeGEE goes on to call ee.initialize
AuthSuccess ==
    /\ initPc = "authenticating"
    /\ geeAuthenticated' = TRUE
    /\ initPc' = "initializing"
    /\ UNCHANGED <<geeInitialized, retryCount, reqs, health, evalVars, drawVars>>

\* authenticateViaPrivateKey calls its error callback
AuthFailure ==
    /\ initPc = "authenticating"
    /\ CatchSetupFailure
    /\ UNCHANGED <<geeAuthenticated, geeInitialized, reqs, health, evalVars, drawVars>>

\* ee.initialize calls its success callback
InitializeSuccess ==
    /\ initPc = "initializing"
    /\ geeInitialized' = TRUE
    /\ initPc' = "ready"
    /\ UNCHANGED <<geeAuthenticated, retryCount, reqs, health, evalVars, drawVars>>

\* ee.initialize calls its error callback
InitializeFailure ==
    /\ initPc = "initializing"
    /\ CatchSetupFailure
    /\ UNCHANGED <<geeAuthenticated, geeInitialized, reqs, health, evalVars, drawVars>>

\* the setTimeout of the catch block fires: initializeGEE(retryCount + 1)
RetryTimer_SameCount ==
    /\ initPc = "waitRetry"
    /\ retryCount' = retryCount
    /\ initPc' = "authenticating"
    /\ UNCHANGED <<geeAuthenticated, geeInitialized, reqs, health, evalVars, drawVars>>
RetryTimer ==
    /\ initPc = "waitRetry"
    /\ retryCount' = retryCount + 1
    /\ initPc' = "authenticating"
    /\ UNCHANGED <<geeAuthenticated, geeInitialized, reqs, health, evalVars, drawVars>>

IsGEEReady_AuthenticatedOnly == geeAuthenticated
IsGEEReady == geeAuthenticated /\ geeInitialized

\* the body of GET /api/health (timestamp and environment left out);
\* askedIn is history: where initializeGEE stood
HealthBody_ReadyForBoth ==
    [status |-> "ok", gee_authenticated |-> IsGEEReady,
     gee_initialized |-> IsGEEReady, askedIn |-> initPc]
HealthBody ==
    [status |-> "ok", gee_authenticated |-> geeAuthenticated,
     gee_initialized |-> geeInitialized, askedIn |-> initPc]

HealthCheck ==
    /\ health' = HealthBody
    /\ UNCHANGED <<geeAuthenticated, geeInitialized, initPc, retryCount, reqs,
                   evalVars, drawVars>>

\* the Earth Engine client, which is not part of the repository, may throw
\* while the query is built from a body with a missing field
QueryBuildThrows(body) ==
    IF body \in CompleteBodies THEN {FALSE} ELSE {TRUE, FALSE}

\* the Earth Engine calls made by the time the query has been built or has
\* thrown
CallsUntilThrow(body) ==
    IF body.aoi = "missing" THEN {"Geometry"}
    ELSE {"Geometry", "ImageCollection"}
CallsUntilAwait == {"Geometry", "ImageCollection", "getInfo"}

\* the requests awaiting getInfo()
Awaiting == { r \in Requests : reqs[r].pc = "awaiting" }
Arrived == { r \in Requests : reqs[r].pc # "none" }

\* a POST request arrives: the handler runs to its 503 / 500 response or to
\* its await of getInfo()
Arrive(r, endpoint, body) ==
    /\ reqs[r].pc = "none"
    /\ LET seen == [NoRequest EXCEPT
                       !.endpoint = endpoint, !.body = body,
                       !.seenAuthenticated = geeAuthenticated,
                       !.seenInitialized = geeInitialized,
                       !.order = Cardinality(Arrived) + 1]
       IN  IF ~IsGEEReady
           THEN reqs' = [reqs EXCEPT ![r] =
                    [seen EXCEPT
                        !.pc = "done", !.status = 503,
                        !.error = "Google Earth Engine is not ready. Please try again later.",
                        !.gee_status = [authenticated |-> geeAuthenticated,
                                        initialized |-> geeInitialized]]]
           ELSE \E throws \in QueryBuildThrows(body) :
                   IF throws
                   THEN reqs' = [reqs EXCEPT ![r] =
                            [seen EXCEPT
                                !.pc = "done", !.status = 500,
                                !.error = "Failed to process satellite data",
                                !.eeCalls = CallsUntilThrow(body)]]
                   ELSE reqs' = [q \in Requests |->
                            IF q = r
                            THEN [seen EXCEPT
                                     !.pc = "awaiting",
                                     !.eeCalls = CallsUntilAwait,
                                     !.overlapped = Awaiting # {}]
                            ELSE IF q \in Awaiting
                            THEN [reqs[q] EXCEPT !.overlapped = TRUE]
                            ELSE reqs[q]]
    /\ UNCHANGED <<geeAuthenticated, geeInitialized, initPc, retryCount, health,
                   evalVars, drawVars>>

\* what the continuation of request r reads after its await: its own
\* results and the consts of its own closure
BodySeenAfterAwait_ModuleLevel(r) ==
    LET last == CHOOSE q \in Arrived : \A o \in Arrived : reqs[o].order <= reqs[q].order
    IN  reqs[last].body
BodySeenAfterAwait(r) == reqs[r].body

\* getInfo() of a /api/ndvi-timeseries request resolves with features f
ResolveTimeseries(r, f) ==
    /\ reqs[r].pc = "awaiting"
    /\ reqs[r].endpoint = "timeseries"
    /\ \E ts \in SortOutcomes(FilterItems(MapFeatures(f))) :
         LET vals == NdviValuesOf(ts)
             fm == MeanOrZero(FirstHalfOf(vals))
             sm == MeanOrZero(SecondHalfOf(vals))
         IN  reqs' = [reqs EXCEPT ![r] =
                 IF Len(ts) = 0
                 THEN [@ EXCEPT
                          !.pc = "done", !.status = 404, !.features = f,
                          !.error = "No satellite data found for the selected area and date range."]
                 ELSE [@ EXCEPT
                          !.pc = "done", !.status = 200, !.features = f,
                          !.ndvi_timeseries = ts,
                          !.summary = SummaryOf(ts, vals, fm, sm,
                                                BodySeenAfterAwait(r).startDate,
                                                BodySeenAfterAwait(r).endDate)]]
    /\ UNCHANGED <<geeAuthenticated, geeInitialized, initPc, retryCount, health,
                   evalVars, drawVars>>

\* getInfo() of a /api/ndvi request resolves with stats.NDVI = v
ResolveNdvi(r, v) ==
    /\ reqs[r].pc = "awaiting"
    /\ reqs[r].endpoint = "ndvi"
    /\ reqs' = [reqs EXCEPT ![r] =
                   [@ EXCEPT !.pc = "done", !.status = 200, !.ndvi_mean = v]]
    /\ UNCHANGED <<geeAuthenticated, geeInitialized, initPc, retryCount, health,
                   evalVars, drawVars>>

\* getInfo() rejects: the catch block answers 500
RejectRequest(r) ==
    /\ reqs[r].pc = "awaiting"
    /\ reqs' = [reqs EXCEPT ![r] =
                   [@ EXCEPT !.pc = "done", !.status = 500,
                             !.error = "Failed to process satellite data"]]
    /\ UNCHANGED <<geeAuthenticated, geeInitialized, initPc, retryCount, health,
                   evalVars, drawVars>>

InitStartup == InitServer /\ EvalAtRest /\ MapAtRest /\ useAdvancedMap = FALSE

\* start-up, health checks and one POST request
PostArrives == \E endpoint \in Endpoints, body \in Bodies : Arrive(1, endpoint, body)
TimeseriesResolves == \E f \in ServerFeatureLists : ResolveTimeseries(1, f)
NdviResolves == \E v \in NdviProps : ResolveNdvi(1, v)
GetInfoRejects == RejectRequest(1)

NextStartup ==
    \/ AuthSuccess
    \/ AuthFailure
    \/ InitializeSuccess
    \/ InitializeFailure
    \/ RetryTimer
    \/ HealthCheck
    \/ PostArrives
    \/ TimeseriesResolves
    \/ NdviResolves
    \/ GetInfoRejects

SpecStartup == InitStartup /\ [][NextStartup]_vars

\* every Earth Engine callback eventually fires and every scheduled retry
\* timer eventually runs
SpecStartupFair ==
    /\ SpecStartup
    /\ WF_vars(AuthSuccess \/ AuthFailure)
    /\ WF_vars(InitializeSuccess \/ InitializeFailure)
    /\ WF_vars(RetryTimer)

\* start-up and two /api/ndvi-timeseries requests in any interleaving
TimeseriesArrives ==
    \E r \in Requests, body \in CompleteBodies : Arrive(r, "timeseries", body)
SomeTimeseriesResolves ==
    \E r \in Requests, f \in ServerFeatureLists : ResolveTimeseries(r, f)
SomeGetInfoRejects == \E r \in Requests : RejectRequest(r)

\* the failure callbacks and the retry timer write neither flag, so the
\* flags a request can see are those of a start-up without failures
NextConcurrent ==
    \/ AuthSuccess
    \/ InitializeSuccess
    \/ TimeseriesArrives
    \/ SomeTimeseriesResolves
    \/ SomeGetInfoRejects

SpecConcurrent == InitStartup /\ [][NextConcurrent]_vars

(***************************************************************************)
(* DrawingHandler and MapComponent.  An event handler runs with the state  *)
(* of the last render and its state updates are rendered before the next   *)
(* event, so an event is one step.  clicks, calls, lastArea and lastEvent  *)
(* are history: the points clicked and the calls of onAreaSelect since the *)
(* drawing in progress (or the last one) began, the last polygon handed to *)
(* onAreaSelect, and the last event.                                       *)
(***************************************************************************)
\* e.latlng as [lat, lng]
Points == {<<1, 2>>, <<3, 4>>, <<2, 1>>}

\* the geoJSON built by completeArea: [lng, lat] pairs, ring closed
completeArea(points) ==
    LET ring == [i \in 1 .. Len(points) |-> <<points[i][2], points[i][1]>>]
    IN  [type |-> "Polygon", coordinates |-> <<Append(ring, ring[1])>>]

\* currentPath.length === 3
CompletesRectangle_AtFour(path) == Len(path) = 4
CompletesRectangle(path) == Len(path) = 3

\* isDrawing && currentPath.length >= 3
DblClickCompletes_FromTwo == isDrawing /\ Len(currentPath) >= 2
DblClickCompletes == isDrawing /\ Len(currentPath) >= 3

\* completeArea(points): onAreaSelect(geoJSON), i.e. setAoi(geoJSON), then
\* setIsDrawing(false) and setCurrentPath([])
AreaCompleted(points) ==
    /\ aoi' = completeArea(points)
    /\ lastArea' = completeArea(points)
    /\ calls' = calls + 1
    /\ isDrawing' = FALSE
    /\ currentPath' = <<>>

\* the click handler
Click(newPoint) ==
    /\ lastEvent' = "click"
    /\ IF ~isDrawing
       THEN /\ isDrawing' = TRUE
            /\ currentPath' = <<newPoint>>
            /\ clicks' = <<newPoint>>
            /\ calls' = 0
            /\ UNCHANGED <<aoi, lastArea>>
       ELSE IF Len(currentPath) < 4
       THEN /\ clicks' = Append(clicks, newPoint)
            /\ IF CompletesRectangle(currentPath)
               THEN AreaCompleted(Append(currentPath, newPoint))
               ELSE /\ currentPath' = Append(currentPath, newPoint)
                    /\ UNCHANGED <<isDrawing, aoi, calls, lastArea>>
       ELSE UNCHANGED <<isDrawing, currentPath, aoi, clicks, calls, lastArea>>
    /\ UNCHANGED <<simpleVars, evalVars, serverVars>>

MapClick == \E newPoint \in Points : Click(newPoint)

\* the dblclick handler
DblClick ==
    /\ lastEvent' = "dblclick"
    /\ IF DblClickCompletes
       THEN AreaCompleted(currentPath)
       ELSE UNCHANGED <<isDrawing, currentPath, aoi, calls, lastArea>>
    /\ UNCHANGED <<clicks, simpleVars, evalVars, serverVars>>

\* the Clear Selection button, shown while aoi is set
ClearArea ==
    /\ aoi # NoArea
    /\ aoi' = NoArea
    /\ lastEvent' = "clear"
    /\ UNCHANGED <<isDrawing, currentPath, clicks, calls, lastArea, simpleVars,
                   evalVars, serverVars>>

\* the DrawingHandler of a mounted MapComponent
InitDraw == EvalAtRest /\ ServerAtRest /\ MapAtRest /\ useAdvancedMap = TRUE

NextDraw == MapClick \/ DblClick \/ ClearArea

SpecDraw == InitDraw /\ [][NextDraw]_vars

(***************************************************************************)
(* The map page of App: SimpleMapComponent with its AreaSelector (the      *)
(* professional map), MapComponent with its DrawingHandler (the advanced   *)
(* map), the toggle between them and the reset.  A component that is       *)
(* unmounted loses its state and is mounted again in its initial state.    *)
(* Latitudes and longitudes are exact, in units of 1/2220000 degree, in    *)
(* which every constant of the code is an integer.  The mousemove handler  *)
(* only sets tempBounds, which nothing but the dashed rectangle reads.     *)
(***************************************************************************)
centerLat == 90382416       \* 40.7128
centerLng == -164293320     \* -74.0060
MinDragSize == 2220         \* 0.001
ClickPresetSize == 111000   \* 0.05
QuickSizes == {1, 5, 10, 25}

\* sizeKm / 111
SizeDeg(sizeKm) == sizeKm * 20000

\* e.latlng of the mouse events as [lat, lng]: the map centre and a point
\* 0.1 degree to its north and west
MapPoints == {<<centerLat, centerLng>>, <<centerLat + 222000, centerLng - 222000>>}

\* e.target.value of the number inputs
Fields == {"north", "south", "east", "west"}
FieldValues(field) ==
    IF field \in {"north", "south"} THEN {"", "40.6", "40.8"}
    ELSE {"", "-74.1", "-73.9"}

parseFloat(str) ==
    CASE str = "40.6" -> 90132000
      [] str = "40.8" -> 90576000
      [] str = "-74.1" -> -164502000
      [] str = "-73.9" -> -164058000

\* isNaN(parseFloat(str))
isNaN(str) == str \notin {"40.6", "40.8", "-74.1", "-73.9"}

MinOf(a, b) == IF a <= b THEN a ELSE b
MaxOf(a, b) == IF a >= b THEN a ELSE b

\* the geoJSON of AreaSelector's createGeoJSONFromBounds
createGeoJSONFromBounds_Unclosed(start, end) ==
    LET minLat == MinOf(start[1], end[1])
        maxLat == MaxOf(start[1], end[1])
        minLng == MinOf(start[2], end[2])
        maxLng == MaxOf(start[2], end[2])
    IN  [type |-> "Polygon",
         coordinates |-> << << <<minLng, minLat>>, <<maxLng, minLat>>,
                               <<maxLng, maxLat>>, <<minLng, maxLat>> >> >>]
createGeoJSONFromBounds(start, end) ==
    LET minLat == MinOf(start[1], end[1])
        maxLat == MaxOf(start[1], end[1])
        minLng == MinOf(start[2], end[2])
        maxLng == MaxOf(start[2], end[2])
    IN  [type |-> "Polygon",
         coordinates |-> << << <<minLng, minLat>>, <<maxLng, minLat>>,
                               <<maxLng, maxLat>>, <<minLng, maxLat>>,
                               <<minLng, minLat>> >> >>]

\* the geoJSON of AreaSelector's createPresetArea(center, size)
SelectorPresetArea(center, size) ==
    LET lat == center[1]
        lng == center[2]
        halfSize == size \div 2
    IN  [type |-> "Polygon",
         coordinates |-> << << <<lng - halfSize, lat - halfSize>>,
                               <<lng + halfSize, lat - halfSize>>,
                               <<lng + halfSize, lat + halfSize>>,
                               <<lng - halfSize, lat + halfSize>>,
                               <<lng - halfSize, lat - halfSize>> >> >>]

\* the geoJSON of SimpleMapComponent's createPresetArea(sizeKm)
createPresetArea(sizeKm) ==
    LET sizeDeg == SizeDeg(sizeKm)
    IN  [type |-> "Polygon",
         coordinates |-> << << <<centerLng - sizeDeg \div 2, centerLat - sizeDeg \div 2>>,
                               <<centerLng + sizeDeg \div 2, centerLat - sizeDeg \div 2>>,
                               <<centerLng + sizeDeg \div 2, centerLat + sizeDeg \div 2>>,
                               <<centerLng - sizeDeg \div 2, centerLat + sizeDeg \div 2>>,
                               <<centerLng - sizeDeg \div 2, centerLat - sizeDeg \div 2>> >> >>]

\* the geoJSON of createAreaFromCoordinates
AreaFromCoordinates(form) ==
    LET n == parseFloat(form.north)
        s == parseFloat(form.south)
        e == parseFloat(form.east)
        w == parseFloat(form.west)
    IN  [type |-> "Polygon",
         coordinates |-> << << <<w, s>>, <<e, s>>, <<e, n>>, <<w, n>>, <<w, s>> >> >>]

\* handleAreaSelect of SimpleMapComponent
handleAreaSelect(geoJSON) ==
    LET coords == geoJSON.coordinates[1]
    IN  /\ aoi' = geoJSON
        /\ lastArea' = geoJSON
        /\ selectedBounds' = << <<coords[1][2], coords[1][1]>>,
                                <<coords[3][2], coords[3][1]>> >>

\* the render of SimpleMapComponent reads selectedBounds[1][0] when aoi is set
RenderThrows == ~useAdvancedMap /\ aoi # NoArea /\ selectedBounds = NoBounds

\* the page is shown with the professional / the advanced map
SimpleMapShown == ~renderError /\ ~useAdvancedMap
AdvancedMapShown == ~renderError /\ useAdvancedMap

Rendered == renderError' = RenderThrows'

MouseDown ==
    /\ SimpleMapShown
    /\ \E p \in MapPoints :
         IF selectionMode = "drag"
         THEN isSelecting' = TRUE /\ startPoint' = p
         ELSE UNCHANGED <<isSelecting, startPoint>>
    /\ UNCHANGED <<isDrawing, currentPath, aoi, clicks, calls, lastArea, lastEvent,
                   useAdvancedMap, selectedBounds, selectionMode, coordinateForm,
                   showCoordinateInput, evalVars, serverVars>>
    /\ Rendered

MouseUp ==
    /\ SimpleMapShown
    /\ \E endPoint \in MapPoints :
         IF isSelecting /\ startPoint # NoPoint /\ selectionMode = "drag"
         THEN /\ IF /\ Abs(startPoint[1] - endPoint[1]) > MinDragSize
                    /\ Abs(startPoint[2] - endPoint[2]) > MinDragSize
                 THEN /\ handleAreaSelect(createGeoJSONFromBounds(startPoint, endPoint))
                      /\ lastEvent' = "drag"
                 ELSE UNCHANGED <<aoi, lastArea, selectedBounds, lastEvent>>
              /\ isSelecting' = FALSE
              /\ startPoint' = NoPoint
         ELSE UNCHANGED <<aoi, lastArea, selectedBounds, lastEvent, isSelecting,
                          startPoint>>
    /\ UNCHANGED <<isDrawing, currentPath, clicks, calls, useAdvancedMap,
                   selectionMode, coordinateForm, showCoordinateInput, evalVars,
                   serverVars>>
    /\ Rendered

\* the click handler of AreaSelector
SelectorClick ==
    /\ SimpleMapShown
    /\ \E center \in MapPoints :
         IF selectionMode = "preset"
         THEN /\ handleAreaSelect(SelectorPresetArea(center, ClickPresetSize))
              /\ lastEvent' = "preset"
         ELSE UNCHANGED <<aoi, lastArea, selectedBounds, lastEvent>>
    /\ UNCHANGED <<isDrawing, currentPath, clicks, calls, useAdvancedMap,
                   selectionMode, isSelecting, startPoint, coordinateForm,
                   showCoordinateInput, evalVars, serverVars>>
    /\ Rendered

\* a Quick Areas button
QuickArea ==
    /\ SimpleMapShown
    /\ \E sizeKm \in QuickSizes : handleAreaSelect(createPresetArea(sizeKm))
    /\ lastEvent' = "quick"
    /\ UNCHANGED <<isDrawing, currentPath, clicks, calls, useAdvancedMap,
                   selectionMode, isSelecting, startPoint, coordinateForm,
                   showCoordinateInput, evalVars, serverVars>>
    /\ Rendered

SetSelectionMode ==
    /\ SimpleMapShown
    /\ \E mode \in {"drag", "preset"} : selectionMode' = mode
    /\ UNCHANGED <<isDrawing, currentPath, aoi, clicks, calls, lastArea, lastEvent,
                   useAdvancedMap, selectedBounds, isSelecting, startPoint,
                   coordinateForm, showCoordinateInput, evalVars, serverVars>>
    /\ Rendered

\* the Enter Coordinates button (and Cancel, while the form is shown)
ToggleCoordinateInput ==
    /\ SimpleMapShown
    /\ showCoordinateInput' = ~showCoordinateInput
    /\ UNCHANGED <<isDrawing, currentPath, aoi, clicks, calls, lastArea, lastEvent,
                   useAdvancedMap, selectedBounds, selectionMode, isSelecting,
                   startPoint, coordinateForm, evalVars, serverVars>>
    /\ Rendered

\* onChange of one of the four inputs
TypeCoordinate ==
    /\ SimpleMapShown
    /\ showCoordinateInput
    /\ \E field \in Fields : \E value \in FieldValues(field) :
         coordinateForm' = [coordinateForm EXCEPT ![field] = value]
    /\ UNCHANGED <<isDrawing, currentPath, aoi, clicks, calls, lastArea, lastEvent,
                   useAdvancedMap, selectedBounds, selectionMode, isSelecting,
                   startPoint, showCoordinateInput, evalVars, serverVars>>
    /\ Rendered

\* the Create Area button
createAreaFromCoordinates ==
    /\ SimpleMapShown
    /\ showCoordinateInput
    /\ IF \E field \in Fields : coordinateForm[field] = ""
       THEN UNCHANGED <<aoi, lastArea, selectedBounds, lastEvent, showCoordinateInput>>
       ELSE IF \E field \in Fields : isNaN(coordinateForm[field])
       THEN UNCHANGED <<aoi, lastArea, selectedBounds, lastEvent, showCoordinateInput>>
       ELSE /\ handleAreaSelect(AreaFromCoordinates(coordinateForm))
            /\ showCoordinateInput' = FALSE
            /\ lastEvent' = "typed"
    /\ UNCHANGED <<isDrawing, currentPath, clicks, calls, useAdvancedMap,
                   selectionMode, isSelecting, startPoint, coordinateForm,
                   evalVars, serverVars>>
    /\ Rendered

\* the Clear & Reselect button, shown while aoi is set
clearSelection ==
    /\ SimpleMapShown
    /\ aoi # NoArea
    /\ aoi' = NoArea
    /\ selectedBounds' = NoBounds
    /\ lastEvent' = "clear"
    /\ UNCHANGED <<isDrawing, currentPath, clicks, calls, lastArea, useAdvancedMap,
                   selectionMode, isSelecting, startPoint, coordinateForm,
                   showCoordinateInput, evalVars, serverVars>>
    /\ Rendered

\* the Reset & Start Over button of App, shown while aoi is set
resetAnalysis ==
    /\ ~renderError
    /\ aoi # NoArea
    /\ aoi' = NoArea
    /\ lastEvent' = "reset"
    /\ UNCHANGED <<isDrawing, currentPath, clicks, calls, lastArea, useAdvancedMap,
                   selectedBounds, selectionMode, isSelecting, startPoint,
                   coordinateForm, showCoordinateInput, evalVars, serverVars>>
    /\ Rendered

\* the map type toggle of App: the map shown is unmounted and the other one
\* mounted; the button of the map already shown changes nothing
SetUseAdvancedMap ==
    /\ ~renderError
    /\ \E advanced \in BOOLEAN :
         /\ useAdvancedMap' = advanced
         /\ IF advanced = useAdvancedMap
            THEN UNCHANGED <<isDrawing, currentPath, clicks, calls, lastEvent,
                             selectedBounds, selectionMode, isSelecting,
                             startPoint, coordinateForm, showCoordinateInput>>
            ELSE /\ selectedBounds' = NoBounds
                 /\ selectionMode' = "drag"
                 /\ isSelecting' = FALSE
                 /\ startPoint' = NoPoint
                 /\ coordinateForm' = EmptyForm
                 /\ showCoordinateInput' = FALSE
                 /\ isDrawing' = FALSE
                 /\ currentPath' = <<>>
                 /\ clicks' = <<>>
                 /\ calls' = 0
                 /\ lastEvent' = "toggle"
    /\ UNCHANGED <<aoi, lastArea, evalVars, serverVars>>
    /\ Rendered

\* the events of the advanced map
AdvancedClick == AdvancedMapShown /\ \E newPoint \in MapPoints : Click(newPoint)
AdvancedDblClick == AdvancedMapShown /\ DblClick
AdvancedClear == AdvancedMapShown /\ ClearArea

InitUI == EvalAtRest /\ ServerAtRest /\ MapAtRest /\ useAdvancedMap = FALSE

NextUI ==
    \/ MouseDown
    \/ MouseUp
    \/ SelectorClick
    \/ QuickArea
    \/ SetSelectionMode
    \/ ToggleCoordinateInput
    \/ TypeCoordinate
    \/ createAreaFromCoordinates
    \/ clearSelection
    \/ resetAnalysis
    \/ SetUseAdvancedMap
    \/ AdvancedClick
    \/ AdvancedDblClick
    \/ AdvancedClear

SpecUI == InitUI /\ [][NextUI]_vars

(***************************************************************************)
(* Properties.                                                             *)
(***************************************************************************)
\* the samples of f that carry a number
HasNumber(feature) == IsNum(feature.ndvi_mean)
ValidSamples(f) == SelectSeq(f, HasNumber)
ValuesOf(f) == [i \in 1 .. Len(f) |-> f[i].ndvi_mean]

\* getInfo() has resolved and the handler has answered
Answered == pc = "done" /\ status # 500

\* every delivered date parses
DatesParse == \A i \in 1 .. Len(features) : features[i].date # BadDate

\* for numbers a and b: the numerator and denominator of |a - b|
DiffNumer(a, b) == Abs(a.n * b.d - b.n * a.d)
DiffDenom(a, b) == a.d * b.d

\* C1: a series with exactly one valid sample of value v yields a summary
\* with mean = v, change_detected = false and confidence = 0, and the call
\* does not fail.  (Stated for samples whose dates all parse.)
C1_SingleSampleDegenerate ==
    (Answered /\ DatesParse /\ Len(ValidSamples(features)) = 1) =>
        /\ status = 200
        /\ summary.mean = ValidSamples(features)[1].ndvi_mean
        /\ summary.change_detected = FALSE
        /\ summary.confidence = Num(0, 1)

\* C2: when every delivered value is null (or nothing was delivered) the
\* handler answers 404 "No satellite data found" and produces no summary.
C2_EmptySeriesIs404 ==
    (Answered /\ \A i \in 1 .. Len(features) : features[i].ndvi_mean = Null) =>
        /\ status = 404
        /\ error = "No satellite data found for the selected area and date range."
        /\ summary = NoSummary

C2_Witness ==
    /\ Answered
    /\ Len(features) >= 2
    /\ \A i \in 1 .. Len(features) : features[i].ndvi_mean = Null
    /\ status = 404

\* C3: change_detected is true exactly when the two segment means differ by
\* strictly more than 0.1; a difference of exactly 0.1 gives false.
C3_StrictThreshold ==
    status = 200 =>
        (summary.change_detected <=>
            /\ IsNum(firstHalfMean)
            /\ IsNum(secondHalfMean)
            /\ 10 * DiffNumer(firstHalfMean, secondHalfMean)
                  > DiffDenom(firstHalfMean, secondHalfMean))

C3_Witness ==
    /\ status = 200
    /\ Len(firstHalf) > 0
    /\ IsNum(firstHalfMean)
    /\ IsNum(secondHalfMean)
    /\ 10 * DiffNumer(firstHalfMean, secondHalfMean)
          = DiffDenom(firstHalfMean, secondHalfMean)
    /\ summary.change_detected = FALSE

\* C4: confidence = min(|first mean - second mean| * 2, 1); it always lies
\* in [0, 1] and is exactly 1 when the means differ by at least 0.5.
\* (Stated for samples whose dates all parse.)
C4_ConfidenceClamped ==
    (status = 200 /\ DatesParse) =>
        /\ IsNum(summary.confidence)
        /\ summary.confidence.n >= 0
        /\ summary.confidence.n <= summary.confidence.d
        /\ IsNum(firstHalfMean)
        /\ IsNum(secondHalfMean)
        /\ summary.confidence =
              IF 2 * DiffNumer(firstHalfMean, secondHalfMean)
                    >= DiffDenom(firstHalfMean, secondHalfMean)
              THEN Num(1, 1)
              ELSE Num(2 * DiffNumer(firstHalfMean, secondHalfMean),
                       DiffDenom(firstHalfMean, secondHalfMean))

\* a non-empty segment of numbers has mean * length = sum
MeanOfOwnSamples(seg, mean) ==
    (Len(seg) > 0 /\ \A i \in 1 .. Len(seg) : IsNum(seg[i])) =>
        JSMul(mean, Num(Len(seg), 1)) = ReduceSum(seg)

\* C5: the first segment is the first floor(n/2) samples of the series in
\* date order, the second segment the remaining n - floor(n/2) (the extra
\* sample of an odd n is in the second); the segments are disjoint, together
\* the whole series, and each segment mean is the mean of its own samples.
C5_MidpointSplit ==
    status = 200 =>
        LET n == Len(timeseries)
            h == Len(firstHalf)
        IN  /\ 2 * h <= n
            /\ n <= 2 * h + 1
            /\ Len(secondHalf) = n - h
            /\ \A i \in 1 .. h : firstHalf[i] = timeseries[i].ndvi_mean
            /\ \A i \in 1 .. n - h : secondHalf[i] = timeseries[h + i].ndvi_mean
            /\ MeanOfOwnSamples(firstHalf, firstHalfMean)
            /\ MeanOfOwnSamples(secondHalf, secondHalfMean)

C5_Witness ==
    /\ status = 200
    /\ Len(timeseries) = 3
    /\ Len(firstHalf) = 1
    /\ Len(secondHalf) = 2
    /\ IsNum(firstHalfMean)
    /\ IsNum(secondHalfMean)
    /\ secondHalf[1] # secondHalf[2]
    /\ firstHalfMean # secondHalfMean

\* C6: the summary's mean is the sum of all valid values of the series
\* divided by their count.  (Stated for samples whose dates all parse.)
C6_MeanOfValidValues ==
    (Answered /\ DatesParse /\ Len(ValidSamples(features)) > 0) =>
        /\ status = 200
        /\ summary.mean = JSDivLen(ReduceSum(ValuesOf(ValidSamples(features))),
                                   Len(ValidSamples(features)))

\* C7: a request whose samples are a permutation of the previous request's
\* samples gets the same answer (mean, change_detected, confidence, count).
\* (Stated for samples whose dates all parse and whose values are numbers.)
C7_OrderIndependent ==
    (Answered /\ round > 1 /\ DatesParse
       /\ Len(ValidSamples(features)) = Len(features)) =>
        /\ status = prevStatus
        /\ summary = prevSummary

\* C8: with parseable dates the normalized series is strictly increasing by
\* date: samples sharing a date have been merged, no date occurs twice.
C8_StrictlyIncreasingDates ==
    (status = 200 /\ DatesParse) =>
        \A i, j \in 1 .. Len(timeseries) :
            i < j => timeseries[i].date < timeseries[j].date

\* C9: no sample whose value is null or absent is part of the series used
\* for the mean, the segment means, change_detected and confidence.
\* (Stated for samples whose dates all parse.)
C9_InvalidValuesExcluded ==
    (status = 200 /\ DatesParse) =>
        /\ \A i \in 1 .. Len(timeseries) : IsNum(timeseries[i].ndvi_mean)
        /\ \A i \in 1 .. Len(ndviValues) : IsNum(ndviValues[i])
        /\ Len(ndviValues) = Len(ValidSamples(features))

\* C10: if any sample's date cannot be parsed the evaluation fails as a
\* whole: an error response, no summary and no time series.
C10_InvalidDateAborts ==
    (pc = "done" /\ \E i \in 1 .. Len(features) : features[i].date = BadDate) =>
        /\ status = 500
        /\ summary = NoSummary
        /\ timeseries = <<>>

\* C11 (as claimed): date_range is (earliest date, latest date) of the
\* series used for the statistics.
C11_DateRangeOfSeries ==
    status = 200 =>
        /\ summary.date_range.start = timeseries[1].date
        /\ summary.date_range.end = timeseries[Len(timeseries)].date

\* C11 (amended): date_range is the requested period, { start: startDate,
\* end: endDate } of the request body, whatever dates the series has.
C11_DateRangeIsRequestedPeriod ==
    status = 200 =>
        /\ summary.date_range.start = startDate
        /\ summary.date_range.end = endDate

C11_Witness ==
    /\ status = 200
    /\ Len(timeseries) >= 2
    /\ summary.date_range = [start |-> 1, end |-> 3]
    /\ \A i \in 1 .. Len(timeseries) : timeseries[i].date = 2

C13_AscendingDates ==
    status = 200 =>
        \A i, j \in 1 .. Len(timeseries) :
            (/\ i < j
             /\ timeseries[i].date \in ParseableDates
             /\ timeseries[j].date \in ParseableDates)
                => timeseries[i].date <= timeseries[j].date

AloneOutcomes(f, body) ==
    { IF Len(ts) = 0
      THEN [status |-> 404, ndvi_timeseries |-> <<>>, summary |-> NoSummary]
      ELSE LET vals == NdviValuesOf(ts)
               fm == MeanOrZero(FirstHalfOf(vals))
               sm == MeanOrZero(SecondHalfOf(vals))
           IN  [status |-> 200, ndvi_timeseries |-> ts,
                summary |-> SummaryOf(ts, vals, fm, sm, body.startDate, body.endDate)]
      : ts \in SortOutcomes(FilterItems(MapFeatures(f))) }

AnswerOf(r) ==
    [status |-> reqs[r].status, ndvi_timeseries |-> reqs[r].ndvi_timeseries,
     summary |-> reqs[r].summary]

\* C15: two /api/ndvi-timeseries requests handled in any interleaving are
\* independent: the answer of each is an answer its own body and its own
\* getInfo() result give when the request is handled alone.
C15_RequestsIndependent ==
    \A r \in Requests :
        (reqs[r].pc = "done" /\ reqs[r].status \in {200, 404})
            => AnswerOf(r) \in AloneOutcomes(reqs[r].features, reqs[r].body)

\* both requests awaited getInfo() at the same time, the one that arrived
\* first was answered, and the two asked for different periods and were
\* given different series
C15_Witness ==
    /\ \A r \in Requests : reqs[r].overlapped
    /\ \E r \in Requests : reqs[r].order = 1 /\ reqs[r].status = 200
    /\ reqs[1].pc = "done" /\ reqs[2].pc = "done"
    /\ reqs[1].body.startDate # reqs[2].body.startDate
    /\ reqs[1].features # reqs[2].features

\* C16: GET /api/health answers in every state of the start-up, always with
\* status 'ok' and with the two flags as they are at that moment.
C16_HealthReportsFlags ==
    /\ [](ENABLED HealthCheck)
    /\ [][health' # health =>
            /\ health'.status = "ok"
            /\ health'.gee_authenticated = geeAuthenticated
            /\ health'.gee_initialized = geeInitialized
            /\ health'.askedIn = initPc]_vars

\* a health check answered between a failed ee.initialize and the retry:
\* authenticated but not initialized
C16_Witness ==
    /\ health.status = "ok"
    /\ health.askedIn = "waitRetry"
    /\ health.gee_authenticated
    /\ ~health.gee_initialized

\* C17: a POST request whose body lacks aoi, startDate or endDate is
\* rejected with an error before any Earth Engine call is made.
C17_MissingFieldsRejected ==
    \A r \in Requests :
        (reqs[r].pc # "none" /\ reqs[r].body \notin CompleteBodies)
            => /\ reqs[r].pc = "done"
               /\ reqs[r].status >= 400
               /\ reqs[r].eeCalls = {}

\* C20: a POST request handled while one of the flags is false is answered
\* 503 with the values of the flags at that moment, and no Earth Engine call
\* is made for it; this holds for both endpoints.
C20_NotReadyIs503 ==
    \A r \in Requests :
        (reqs[r].pc # "none"
            /\ ~(reqs[r].seenAuthenticated /\ reqs[r].seenInitialized))
            => /\ reqs[r].pc = "done"
               /\ reqs[r].status = 503
               /\ reqs[r].gee_status =
                      [authenticated |-> reqs[r].seenAuthenticated,
                       initialized |-> reqs[r].seenInitialized]
               /\ reqs[r].eeCalls = {}

\* a request to /api/ndvi that arrived after the authentication succeeded
\* and before ee.initialize did
C20_Witness ==
    /\ reqs[1].endpoint = "ndvi"
    /\ reqs[1].status = 503
    /\ reqs[1].seenAuthenticated
    /\ ~reqs[1].seenInitialized
    /\ reqs[1].gee_status = [authenticated |-> TRUE, initialized |-> FALSE]


(***************************************************************************)
(* Properties of DrawingHandler.                                           *)
(***************************************************************************)

\* the polygon the instructions promise for the clicked points: their
\* [lng, lat] pairs in click order and the first one again
PolygonOfPoints(pts) ==
    [type |-> "Polygon",
     coordinates |->
        << [i \in 1 .. Len(pts) + 1 |->
               IF i <= Len(pts) THEN <<pts[i][2], pts[i][1]>>
               ELSE <<pts[1][2], pts[1][1]>>] >>]

\* C18: starting from idle, the first three clicks call onAreaSelect zero
\* times; the fourth click calls it exactly once, with the polygon of the
\* four clicked points in click order, and the drawing state is idle again.
C18_FourClicksCreatePolygon ==
    /\ (isDrawing /\ Len(clicks) <= 3) => calls = 0
    /\ Len(clicks) = 4 =>
          /\ calls = 1
          /\ lastArea = PolygonOfPoints(clicks)
          /\ ~isDrawing
          /\ currentPath = <<>>
    /\ (Len(clicks) = 4 /\ lastEvent = "click") => aoi = lastArea

\* the fourth click has just completed a polygon of three different points
\* and a repeated one
C18_Witness ==
    /\ lastEvent = "click"
    /\ clicks = <<(<<1, 2>>), (<<3, 4>>), (<<2, 1>>), (<<3, 4>>)>>
    /\ calls = 1
    /\ ~isDrawing
    /\ aoi.coordinates = << <<(<<2, 1>>), (<<4, 3>>), (<<1, 2>>), (<<4, 3>>), (<<2, 1>>)>> >>

\* C19: a double-click while drawing with at least 3 points calls
\* onAreaSelect once with the polygon of exactly the points collected so
\* far and returns to idle; any other double-click calls it zero times and
\* leaves isDrawing and currentPath unchanged.
C19_DblClickCompletes ==
    [][lastEvent' = "dblclick" =>
          IF isDrawing /\ Len(currentPath) >= 3
          THEN /\ calls' = calls + 1
               /\ lastArea' = PolygonOfPoints(currentPath)
               /\ aoi' = lastArea'
               /\ ~isDrawing'
               /\ currentPath' = <<>>
          ELSE /\ calls' = calls
               /\ isDrawing' = isDrawing
               /\ currentPath' = currentPath]_vars

\* a click and a double-click elsewhere: the browser delivers the
\* double-click as two clicks and a dblclick at the same point
C19_Witness ==
    /\ lastEvent = "dblclick"
    /\ clicks = <<(<<1, 2>>), (<<3, 4>>), (<<3, 4>>)>>
    /\ calls = 1
    /\ ~isDrawing
    /\ currentPath = <<>>
    /\ lastArea = PolygonOfPoints(clicks)


(***************************************************************************)
(* Properties of initializeGEE.                                            *)
(***************************************************************************)

\* attempt number retryCount + 1 is running
AttemptRunning == initPc \in {"authenticating", "initializing"}

\* C21: initializeGEE makes at most 4 attempts: the attempts are numbered
\* retryCount + 1 with retryCount at most 3; a retry is scheduled only by a
\* failing attempt with retryCount < 3; a new attempt is started only by the
\* one pending retry, which it consumes and whose number it raises by one;
\* after the 4th failure nothing more happens.
C21_AtMostFourAttempts ==
    /\ [](retryCount \in 0 .. 3)
    /\ [][(initPc' = "waitRetry" /\ initPc # "waitRetry")
              => AttemptRunning /\ retryCount < 3 /\ retryCount' = retryCount]_vars
    /\ [][(initPc' = "authenticating" /\ initPc # "authenticating")
              => initPc = "waitRetry" /\ retryCount' = retryCount + 1]_vars
    /\ [][(AttemptRunning /\ initPc' = "failed") => retryCount = 3]_vars
    /\ [][initPc = "failed" => initPc' = "failed" /\ retryCount' = retryCount]_vars

\* the 4th attempt has failed without any of the four authenticating
C21_Witness ==
    /\ initPc = "failed"
    /\ retryCount = 3
    /\ ~geeAuthenticated
    /\ ~geeInitialized

TerminalReady == initPc = "ready" /\ geeAuthenticated /\ geeInitialized
TerminalFailed == initPc = "failed" /\ retryCount = 3 /\ ~geeInitialized

\* C22: if every callback eventually fires and every scheduled retry
\* eventually runs, initializeGEE ends for good either ready, with both
\* flags true and no retry pending, or failed after 4 attempts with no
\* retry pending; a failed server still answers health checks and is not
\* ready, so that its data endpoints answer 503.
C22_InitializationTerminates ==
    /\ <>[](TerminalReady \/ TerminalFailed)
    /\ [](initPc = "failed" => (ENABLED HealthCheck) /\ ~IsGEEReady)
    /\ [](\A r \in Requests :
             (reqs[r].pc # "none" /\ ~reqs[r].seenInitialized)
                 => reqs[r].status = 503)

\* after the 4th failure, with the authentication having succeeded once, a
\* health check was answered and a data request got 503
C22_Witness ==
    /\ initPc = "failed"
    /\ geeAuthenticated
    /\ health.status = "ok"
    /\ health.askedIn = "failed"
    /\ reqs[1].status = 503
    /\ reqs[1].seenAuthenticated


(***************************************************************************)
(* Properties of the map page.                                             *)
(***************************************************************************)

\* C23: after every handleAreaSelect of SimpleMapComponent, selectedBounds
\* is [south-west corner, north-east corner]: its first corner is at most
\* its second in latitude and in longitude, whichever way the area was made.
C23_BoundsSouthWestNorthEast ==
    selectedBounds # NoBounds =>
        /\ selectedBounds[1][1] <= selectedBounds[2][1]
        /\ selectedBounds[1][2] <= selectedBounds[2][2]

\* every latitude of the inputs is positive and every longitude negative,
\* which tells the two apart in a position
IsLngLat(position) == Len(position) = 2 /\ position[1] < 0 /\ position[2] > 0

\* C24: every AOI handed to setAoi by a selection path is a GeoJSON Polygon
\* of one ring that is closed, has at least 4 positions and holds
\* [lng, lat] pairs.
C24_AoiIsClosedPolygon ==
    aoi # NoArea =>
        /\ aoi.type = "Polygon"
        /\ Len(aoi.coordinates) = 1
        /\ LET ring == aoi.coordinates[1]
           IN  /\ Len(ring) >= 4
               /\ ring[Len(ring)] = ring[1]
               /\ \A i \in 1 .. Len(ring) : IsLngLat(ring[i])

\* the smallest ring: a double-click on the advanced map after 3 points
C24_Witness ==
    /\ useAdvancedMap
    /\ lastEvent = "dblclick"
    /\ aoi # NoArea
    /\ aoi = lastArea
    /\ Len(aoi.coordinates[1]) = 4
    /\ Len(clicks) = 3

\* C25: whenever SimpleMapComponent is rendered with an aoi that is not
\* null, its selectedBounds is not null.
C25_BoundsKnownWhenAreaShown ==
    (~useAdvancedMap /\ aoi # NoArea) => selectedBounds # NoBounds

====
